---- MODULE Spec2Model ----
(***************************************************************************)
(* Model of eccbc_mcp_server.py: the MCP adapter ECCBCMCPServer.           *)
(*                                                                         *)
(* The four MCP callbacks (list_resources, read_resource, list_tools,      *)
(* call_tool) are coroutines on one asyncio loop.  A coroutine runs        *)
(* atomically between suspension points, and the only suspension point of  *)
(* this program is the awaited self.http_client.get/post.  So an           *)
(* invocation is either one atomic step (it never reaches an HTTP call) or  *)
(* two: the step that issues the request and suspends, and the step that   *)
(* resumes it with the outcome of that request and runs it to its return.  *)
(*                                                                         *)
(* Python values are tagged records [tag, s] so that str(), f-string       *)
(* formatting and truthiness are computed, not assumed.  TLA+ strings are  *)
(* ASCII: the non-ASCII characters of the program's literals are           *)
(* transliterated (the bullet is "* ", the Arabic label is "AR").          *)
(***************************************************************************)
EXTENDS Integers, Sequences, FiniteSets, Bags, TLC

VARIABLES inflight, ret

vars == <<inflight, ret>>

(***************************************************************************)
(* Bounds of the model.                                                    *)
(***************************************************************************)
\* most invocations suspended on their HTTP call at the same time
MaxInFlight == 2
\* longest JSON array the backend answers with
MaxProducts == 2

(***************************************************************************)
(* Python values.                                                          *)
(***************************************************************************)
PyStr(s) == [tag |-> "str", s |-> s]
PyInt(s) == [tag |-> "int", s |-> s]
PyNone == [tag |-> "none", s |-> ""]
PyTrue == [tag |-> "bool", s |-> "True"]
PyFalse == [tag |-> "bool", s |-> "False"]
\* an opaque JSON array or object passed as an argument value
PyJson(s) == [tag |-> "json", s |-> s]

\* str(v), as f"{v}" computes it
Format(v) == IF v.tag = "none" THEN "None" ELSE v.s

\* bool(v)
Truthy(v) ==
    ~ \/ v.tag = "none"
      \/ v.tag = "str" /\ v.s = ""
      \/ v.tag = "int" /\ v.s = "0"
      \/ v.tag = "bool" /\ v.s = "False"

EmptyDict == [k \in {} |-> PyNone]

\* d.get(key, default)
DictGet(d, key, default) == IF key \in DOMAIN d THEN d[key] ELSE default

(***************************************************************************)
(* JSON bodies of the backend.  A body is [tag, items]: for a list, items  *)
(* are its elements; for an object, its keys (what len() counts and what   *)
(* iteration yields); null and numbers have no len().                      *)
(***************************************************************************)
FullProduct ==
    [tag |-> "dict",
     fields |-> [name |-> PyStr("Coca-Cola"), code |-> PyStr("CC33"),
                 name_ar |-> PyStr("kuka"), price |-> PyInt("5"),
                 available_quantity |-> PyInt("120"),
                 unit_type |-> PyStr("caisses"), unit_size |-> PyStr("33cl")]]
BareProduct ==
    [tag |-> "dict", fields |-> [name |-> PyStr("Fanta"), name_ar |-> PyStr("")]]
NonDictItem == [tag |-> "str", fields |-> EmptyDict]

Elements == {FullProduct, BareProduct, NonDictItem}

ListBody(items) == [tag |-> "list", items |-> items]
NullBody == [tag |-> "null", items |-> <<>>]
ObjectBody == [tag |-> "dict", items |-> <<NonDictItem>>]
EmptyObjectBody == [tag |-> "dict", items |-> <<>>]

Bodies ==
    {ListBody(s) : s \in UNION {[1..k -> Elements] : k \in 0..MaxProducts}}
        \cup {NullBody, ObjectBody, EmptyObjectBody}

(***************************************************************************)
(* Outcomes of one awaited HTTP call: a response (status, JSON body or a   *)
(* body that is not JSON), or an exception raised by the client.  The      *)
(* message of a client exception is whatever str(e) is; httpx timeouts     *)
(* carry the empty message.                                                *)
(***************************************************************************)
Response(status, body) ==
    [kind |-> "response", status |-> status, json_ok |-> TRUE, body |-> body, msg |-> ""]
Malformed(status) ==
    [kind |-> "response", status |-> status, json_ok |-> FALSE, body |-> NullBody, msg |-> ""]
TransportError(msg) ==
    [kind |-> "exception", status |-> 0, json_ok |-> FALSE, body |-> NullBody, msg |-> msg]

Outcomes ==
    {Response(200, b) : b \in Bodies}
        \cup {Response(201, ObjectBody), Malformed(200)}
        \cup {Response(s, NullBody) : s \in {404, 500}}
        \cup {TransportError(m) : m \in {"", "All connection attempts failed"}}

NoOutcome == TransportError("no request")

(***************************************************************************)
(* The HTTP client.  A request is what the code hands to                   *)
(* self.http_client.get(url, params=...) or .post(url, json=...).          *)
(***************************************************************************)
API_BASE_URL == "http://n8n.xandys.xyz:8000"

HttpGet(url, params) ==
    [method |-> "GET", url |-> url, params |-> params,
     has_json |-> FALSE, json |-> EmptyDict]
HttpPost(url, json) ==
    [method |-> "POST", url |-> url, params |-> EmptyDict,
     has_json |-> TRUE, json |-> json]

\* the outcome of a statement: it raised Exception(msg), or it gave a value
Raise(msg) == [raised |-> TRUE, msg |-> msg, body |-> NullBody]
Value(body) == [raised |-> FALSE, msg |-> "", body |-> body]

\* the message of httpx.HTTPStatusError for a response that is no success
StatusMessage(status, url) ==
    (IF status >= 500 THEN "Server error" ELSE "Client error")
        \o " for url '" \o url \o "'"

\* response = await self.http_client.<verb>(...); response.raise_for_status();
\* response.json()
ResponseJson(request, outcome) ==
    IF outcome.kind = "exception" THEN Raise(outcome.msg)
    ELSE IF ~(outcome.status \in 200..299)
         THEN Raise(StatusMessage(outcome.status, request.url))
    ELSE IF ~outcome.json_ok THEN Raise("Expecting value: line 1 column 1 (char 0)")
    ELSE Value(outcome.body)

\* type(x).__name__ for a JSON value x
TypeName(body) ==
    CASE body.tag = "list" -> "list"
      [] body.tag = "dict" -> "dict"
      [] OTHER -> "NoneType"

\* len(x) for a JSON value x: its length, or TypeError
PyLen(body) ==
    IF body.tag \in {"list", "dict"}
    THEN [raised |-> FALSE, msg |-> "", n |-> Len(body.items)]
    ELSE [raised |-> TRUE,
          msg |-> "object of type '" \o TypeName(body) \o "' has no len()",
          n |-> 0]

(***************************************************************************)
(* The five API methods.  X_request is the request X issues before it      *)
(* suspends; X is the dict it returns once the call has ended in outcome.  *)
(***************************************************************************)
_search_products_request(search_term, language) ==
    HttpGet(API_BASE_URL \o "/api/products/search/" \o Format(search_term),
            [language |-> language])

_search_products(search_term, language, outcome) ==
    LET r == ResponseJson(_search_products_request(search_term, language), outcome)
    IN  IF r.raised THEN [success |-> FALSE, error |-> r.msg]
        ELSE [success |-> TRUE,
              products |-> r.body,
              count |-> IF r.body.tag = "list" THEN Len(r.body.items) ELSE 0,
              search_term |-> search_term,
              language |-> language]

_check_stock_request(product_id, language) ==
    HttpGet(API_BASE_URL \o "/api/stock/check/" \o Format(product_id),
            [language |-> language])

_check_stock(product_id, language, outcome) ==
    LET r == ResponseJson(_check_stock_request(product_id, language), outcome)
    IN  IF r.raised THEN [success |-> FALSE, error |-> r.msg]
        ELSE [success |-> TRUE, stock |-> r.body]

_get_all_products_request(active_only) ==
    HttpGet(API_BASE_URL \o "/api/products", [active_only |-> active_only])

_get_all_products(active_only, outcome) ==
    LET r == ResponseJson(_get_all_products_request(active_only), outcome)
        n == PyLen(r.body)
    IN  IF r.raised THEN [success |-> FALSE, error |-> r.msg]
        ELSE IF n.raised THEN [success |-> FALSE, error |-> n.msg]
        ELSE [success |-> TRUE, products |-> r.body, count |-> n.n]

\* _create_order issuing a GET with the arguments as query
_create_order_request_get(arguments) ==
    HttpGet(API_BASE_URL \o "/api/orders", arguments)

_create_order_request(arguments) ==
    HttpPost(API_BASE_URL \o "/api/orders", arguments)

_create_order(arguments, outcome) ==
    LET r == ResponseJson(_create_order_request(arguments), outcome)
    IN  IF r.raised THEN [success |-> FALSE, error |-> r.msg]
        ELSE [success |-> TRUE, order |-> r.body]

_get_customer_history_request(customer_phone, limit) ==
    HttpGet(API_BASE_URL \o "/api/orders/" \o Format(customer_phone),
            [limit |-> limit])

_get_customer_history(customer_phone, limit, outcome) ==
    LET r == ResponseJson(_get_customer_history_request(customer_phone, limit), outcome)
    IN  IF r.raised THEN [success |-> FALSE, error |-> r.msg]
        ELSE [success |-> TRUE, orders |-> r.body]

(***************************************************************************)
(* list_tools and list_resources: the declared surface.  A tool descriptor *)
(* keeps the name, the required fields and the declared defaults of its    *)
(* inputSchema; a resource descriptor its uri, name and mimeType.          *)
(***************************************************************************)
Tool(name, properties, required, defaults) ==
    [name |-> name, properties |-> properties, required |-> required,
     defaults |-> defaults]

\* list_tools without its last descriptor
handle_list_tools_short ==
    << Tool("search_products", {"search_term", "language"}, {"search_term"},
            [language |-> PyStr("fr")]),
       Tool("check_stock", {"product_id", "language"}, {"product_id"},
            [language |-> PyStr("fr")]),
       Tool("get_all_products", {"active_only"}, {},
            [active_only |-> PyTrue]),
       Tool("create_order",
            {"customer_phone", "items", "customer_name", "language", "notes"},
            {"customer_phone", "items"},
            [language |-> PyStr("fr")]) >>

handle_list_tools ==
    << Tool("search_products", {"search_term", "language"}, {"search_term"},
            [language |-> PyStr("fr")]),
       Tool("check_stock", {"product_id", "language"}, {"product_id"},
            [language |-> PyStr("fr")]),
       Tool("get_all_products", {"active_only"}, {},
            [active_only |-> PyTrue]),
       Tool("create_order",
            {"customer_phone", "items", "customer_name", "language", "notes"},
            {"customer_phone", "items"},
            [language |-> PyStr("fr")]),
       Tool("get_customer_history", {"customer_phone", "limit"}, {"customer_phone"},
            [limit |-> PyInt("10")]) >>

Resource(uri, name, mimeType) == [uri |-> uri, name |-> name, mimeType |-> mimeType]

handle_list_resources ==
    << Resource("eccbc://catalog", "Catalogue produits ECCBC", "text/plain"),
       Resource("eccbc://darija", "Guide expressions Darija", "text/plain"),
       Resource("eccbc://context", "Contexte business ECCBC", "text/plain") >>

(***************************************************************************)
(* call_tool.                                                              *)
(***************************************************************************)
\* the names the if/elif chain of handle_call_tool tests
DispatchedNames ==
    {"search_products", "check_stock", "get_all_products", "create_order",
     "get_customer_history"}

\* the request handle_call_tool issues for a dispatched name, before it suspends
handle_call_tool_request(name, arguments) ==
    CASE name = "search_products" ->
            _search_products_request(DictGet(arguments, "search_term", PyNone),
                                     DictGet(arguments, "language", PyStr("fr")))
      [] name = "check_stock" ->
            _check_stock_request(DictGet(arguments, "product_id", PyNone),
                                 DictGet(arguments, "language", PyStr("fr")))
      [] name = "get_all_products" ->
            _get_all_products_request(DictGet(arguments, "active_only", PyTrue))
      [] name = "create_order" ->
            _create_order_request(arguments)
      [] name = "get_customer_history" ->
            _get_customer_history_request(DictGet(arguments, "customer_phone", PyNone),
                                          DictGet(arguments, "limit", PyInt("10")))

\* the body of the try block: the result of the selected handler, or ValueError
Dispatch(name, arguments, outcome) ==
    CASE name = "search_products" ->
            [raised |-> FALSE, msg |-> "",
             result |-> _search_products(DictGet(arguments, "search_term", PyNone),
                                         DictGet(arguments, "language", PyStr("fr")),
                                         outcome)]
      [] name = "check_stock" ->
            [raised |-> FALSE, msg |-> "",
             result |-> _check_stock(DictGet(arguments, "product_id", PyNone),
                                     DictGet(arguments, "language", PyStr("fr")),
                                     outcome)]
      [] name = "get_all_products" ->
            [raised |-> FALSE, msg |-> "",
             result |-> _get_all_products(DictGet(arguments, "active_only", PyTrue),
                                          outcome)]
      [] name = "create_order" ->
            [raised |-> FALSE, msg |-> "",
             result |-> _create_order(arguments, outcome)]
      [] name = "get_customer_history" ->
            [raised |-> FALSE, msg |-> "",
             result |-> _get_customer_history(
                            DictGet(arguments, "customer_phone", PyNone),
                            DictGet(arguments, "limit", PyInt("10")),
                            outcome)]
      [] OTHER ->
            [raised |-> TRUE, msg |-> "Tool inconnu: " \o name, result |-> EmptyDict]

\* handle_call_tool without its except clause
handle_call_tool_no_except(name, arguments, outcome) ==
    LET d == Dispatch(name, arguments, outcome)
    IN  IF d.raised
        THEN [raised |-> TRUE, error |-> d.msg, text |-> EmptyDict]
        ELSE [raised |-> FALSE, error |-> "", text |-> d.result]

\* handle_call_tool as a whole: what reaches the host.  raised says whether an
\* exception left the callback; text is the dict that json.dumps encodes into
\* the one TextContent returned.
handle_call_tool(name, arguments, outcome) ==
    LET d == Dispatch(name, arguments, outcome)
    IN  IF d.raised
        THEN [raised |-> FALSE, error |-> "", text |-> [error |-> d.msg]]
        ELSE [raised |-> FALSE, error |-> "", text |-> d.result]

(***************************************************************************)
(* read_resource.  A text is the sequence of its lines: each               *)
(* catalog += "...\n" appends one line, "\n\n" a line and an empty line.   *)
(***************************************************************************)
\* the lines one iteration of the for loop appends for a dict product
ProductBlock(product) ==
    LET p == product.fields
    IN  << "* " \o Format(DictGet(p, "name", PyStr("N/A")))
                \o " (Code: " \o Format(DictGet(p, "code", PyStr("N/A"))) \o ")" >>
        \o (IF Truthy(DictGet(p, "name_ar", PyNone))
            THEN << "  AR: " \o Format(p["name_ar"]) >>
            ELSE << >>)
        \o << "  Prix: " \o Format(DictGet(p, "price", PyInt("0"))) \o " MAD",
              "  Stock: " \o Format(DictGet(p, "available_quantity", PyInt("0")))
                  \o " " \o Format(DictGet(p, "unit_type", PyStr("unites"))),
              "  Format: " \o Format(DictGet(p, "unit_size", PyStr("Standard"))),
              "" >>

RECURSIVE RenderProducts_prepend(_)
\* the for loop with each block put before the text built so far
RenderProducts_prepend(items) ==
    IF items = << >> THEN [raised |-> FALSE, msg |-> "", lines |-> << >>]
    ELSE IF Head(items).tag # "dict"
         THEN [raised |-> TRUE,
               msg |-> "'" \o Head(items).tag \o "' object has no attribute 'get'",
               lines |-> << >>]
    ELSE LET rest == RenderProducts_prepend(Tail(items))
         IN  IF rest.raised THEN rest
             ELSE [raised |-> FALSE, msg |-> "",
                   lines |-> rest.lines \o ProductBlock(Head(items))]

RECURSIVE RenderProducts(_)
\* the for loop over result["products"]: the lines appended, or the
\* AttributeError of product.get on an element that is no dict
RenderProducts(items) ==
    IF items = << >> THEN [raised |-> FALSE, msg |-> "", lines |-> << >>]
    ELSE IF Head(items).tag # "dict"
         THEN [raised |-> TRUE,
               msg |-> "'" \o Head(items).tag \o "' object has no attribute 'get'",
               lines |-> << >>]
    ELSE LET rest == RenderProducts(Tail(items))
         IN  IF rest.raised THEN rest
             ELSE [raised |-> FALSE, msg |-> "",
                   lines |-> ProductBlock(Head(items)) \o rest.lines]

CatalogHeader == << "=== CATALOGUE ECCBC ===", "" >>

_get_catalog_resource_request == _get_all_products_request(PyTrue)

_get_catalog_resource(outcome) ==
    LET result == _get_all_products(PyTrue, outcome)
    IN  IF ~result.success
        THEN << "Erreur: Impossible de recuperer le catalogue" >>
        ELSE LET r == RenderProducts(result.products.items)
             IN  IF r.raised THEN << "Erreur catalogue: " \o r.msg >>
                 ELSE CatalogHeader \o r.lines

\* the literal of _get_darija_resource (Arabic words transliterated)
_get_darija_resource ==
    << "=== GUIDE DARIJA ECCBC ===", "",
       "PRODUITS:",
       "* kuka / kuka kula = Coca-Cola  ",
       "* fanta = Fanta",
       "* sbrayt = Sprite",
       "* lhamra = La rouge (Coca-Cola)",
       "* sfra = La jaune (Fanta citron)",
       "* lbortoqaliya = L'orange (Fanta orange)", "",
       "QUANTITES:",
       "* wahed=1, juj=2, tlata=3, rb3a=4, khamsa=5",
       "* stta=6, sb3a=7, tmnya=8, ts3a=9, 3achra=10",
       "* sanduq/snadiq = caisse(s)", "",
       "EXPRESSIONS:",
       "* bghit = Je veux",
       "* 3tini = Donne-moi  ",
       "* chhal = Combien",
       "* kayn = Disponible",
       "* wach kayn = Est-ce qu'il y a",
       "* bzaf = Beaucoup",
       "* chwiya = Un peu" >>

\* the literal of _get_context_resource
_get_context_resource ==
    << "=== CONTEXTE ECCBC ===", "",
       "MISSION: B2B embouteilleur Coca-Cola Maroc",
       "- Vente aux commercants via WhatsApp",
       "- Support multilingue (FR/AR/EN)",
       "- Livraison 24-48h partout au Maroc", "",
       "PROCESSUS:",
       "1. Client exprime besoin librement",
       "2. Clarification si necessaire  ",
       "3. Verification stock temps reel",
       "4. Confirmation prix/delai",
       "5. Creation commande automatique", "",
       "UNITES: Caisses de 6/12/24, Prix en MAD",
       "FORMATS: 33cl, 50cl, 1L, 1.5L", "",
       "TONE: Professionnel, chaleureux, respecter langue client" >>

\* the uris for which handle_read_resource reaches an HTTP call
FetchedUris == {"eccbc://catalog"}

\* handle_read_resource with a final else that returns an empty text
handle_read_resource_lenient(uri, outcome) ==
    IF uri = "eccbc://catalog"
    THEN [raised |-> FALSE, error |-> "", content |-> _get_catalog_resource(outcome)]
    ELSE IF uri = "eccbc://darija"
    THEN [raised |-> FALSE, error |-> "", content |-> _get_darija_resource]
    ELSE IF uri = "eccbc://context"
    THEN [raised |-> FALSE, error |-> "", content |-> _get_context_resource]
    ELSE [raised |-> FALSE, error |-> "", content |-> << "" >>]

\* handle_read_resource as a whole: the string returned, or the ValueError raised
handle_read_resource(uri, outcome) ==
    IF uri = "eccbc://catalog"
    THEN [raised |-> FALSE, error |-> "", content |-> _get_catalog_resource(outcome)]
    ELSE IF uri = "eccbc://darija"
    THEN [raised |-> FALSE, error |-> "", content |-> _get_darija_resource]
    ELSE IF uri = "eccbc://context"
    THEN [raised |-> FALSE, error |-> "", content |-> _get_context_resource]
    ELSE [raised |-> TRUE, error |-> "Ressource inconnue: " \o uri, content |-> << >>]

(***************************************************************************)
(* Inputs of the host.                                                     *)
(***************************************************************************)
ToolNames == DispatchedNames \cup {"delete_all"}

Uris == {"eccbc://catalog", "eccbc://darija", "eccbc://context", "eccbc://orders"}

SampleValue ==
    [search_term |-> PyStr("coca"), language |-> PyStr("ar"),
     product_id |-> PyInt("7"), active_only |-> PyFalse,
     customer_phone |-> PyStr("0612"), items |-> PyJson("[{product_id:7,quantity:2}]"),
     limit |-> PyInt("5")]

\* the argument mappings tried for a tool: none at all, or the required
\* fields with any of the defaulted fields
ArgumentsOf(name) ==
    LET decl == {handle_list_tools[i] : i \in 1..Len(handle_list_tools)}
        keysets == UNION {{t.required \cup D : D \in SUBSET DOMAIN t.defaults} :
                            t \in {u \in decl : u.name = name}}
    IN  {[k \in S |-> SampleValue[k]] : S \in keysets \cup {{}}}

(***************************************************************************)
(* State.  inflight is the bag of suspended invocations: each is the frame *)
(* of a coroutine waiting for its HTTP call (its own name and arguments    *)
(* and the requests it has issued).  ret is the answer a callback has just   *)
(* returned, with the invocation it answers, until the server has written  *)
(* it to the host's stream.                                                *)
(***************************************************************************)
Frame(op, name, arguments, request) ==
    [op |-> op, name |-> name, arguments |-> arguments, sent |-> << request >>]

Answer(op, name, arguments, outcome, sent, raised, error, text, content, list) ==
    [op |-> op, name |-> name, arguments |-> arguments, outcome |-> outcome,
     sent |-> sent, raised |-> raised, error |-> error, text |-> text,
     content |-> content, list |-> list]

NoAnswer ==
    Answer("none", "", EmptyDict, NoOutcome, << >>, FALSE, "", EmptyDict, << >>, << >>)

\* locals kept in one place shared by all coroutines: a resumed coroutine
\* reads those of another suspended invocation when there is one
SharedLocals(f) ==
    IF \E g \in BagToSet(inflight) : g # f
    THEN CHOOSE g \in BagToSet(inflight) : g # f
    ELSE f

\* the local variables a resumed coroutine reads: those of its own frame
CoroutineLocals(f) == f

Init ==
    /\ inflight = EmptyBag
    /\ ret = NoAnswer

\* call_tool with a name that reaches an HTTP call: the request is issued and
\* the coroutine suspends
CallToolSuspend(name, arguments) ==
    /\ ret = NoAnswer
    /\ name \in DispatchedNames
    /\ BagCardinality(inflight) < MaxInFlight
    /\ inflight' = inflight (+) SetToBag({Frame("call_tool", name, arguments,
                                    handle_call_tool_request(name, arguments))})
    /\ UNCHANGED ret

\* call_tool with any other name: it returns without suspending
CallToolReturn(name, arguments) ==
    /\ ret = NoAnswer
    /\ name \notin DispatchedNames
    /\ LET r == handle_call_tool(name, arguments, NoOutcome)
       IN  ret' = Answer("call_tool", name, arguments, NoOutcome, << >>,
                         r.raised, r.error, r.text, << >>, << >>)
    /\ UNCHANGED inflight

ReadResourceSuspend(uri) ==
    /\ ret = NoAnswer
    /\ uri \in FetchedUris
    /\ BagCardinality(inflight) < MaxInFlight
    /\ inflight' = inflight (+) SetToBag({Frame("read_resource", uri, EmptyDict,
                                    _get_catalog_resource_request)})
    /\ UNCHANGED ret

ReadResourceReturn(uri) ==
    /\ ret = NoAnswer
    /\ uri \notin FetchedUris
    /\ LET r == handle_read_resource(uri, NoOutcome)
       IN  ret' = Answer("read_resource", uri, EmptyDict, NoOutcome, << >>,
                         r.raised, r.error, EmptyDict, r.content, << >>)
    /\ UNCHANGED inflight

ListTools ==
    /\ ret = NoAnswer
    /\ ret' = Answer("list_tools", "", EmptyDict, NoOutcome, << >>,
                     FALSE, "", EmptyDict, << >>, handle_list_tools)
    /\ UNCHANGED inflight

ListResources ==
    /\ ret = NoAnswer
    /\ ret' = Answer("list_resources", "", EmptyDict, NoOutcome, << >>,
                     FALSE, "", EmptyDict, << >>, handle_list_resources)
    /\ UNCHANGED inflight

\* the HTTP call of a suspended invocation ends in outcome: the coroutine
\* resumes and runs to its return
Resume(f, outcome) ==
    /\ ret = NoAnswer
    /\ BagIn(f, inflight)
    /\ LET l == CoroutineLocals(f)
       IN  IF f.op = "call_tool"
           THEN LET r == handle_call_tool(l.name, l.arguments, outcome)
                IN  ret' = Answer(f.op, f.name, f.arguments, outcome, f.sent,
                                  r.raised, r.error, r.text, << >>, << >>)
           ELSE LET r == handle_read_resource(l.name, outcome)
                IN  ret' = Answer(f.op, f.name, f.arguments, outcome, f.sent,
                                  r.raised, r.error, EmptyDict, r.content, << >>)
    /\ inflight' = inflight (-) SetToBag({f})

\* the server writes the answer to the host's stream
Deliver ==
    /\ ret # NoAnswer
    /\ ret' = NoAnswer
    /\ UNCHANGED inflight

Next ==
    \/ \E name \in ToolNames : \E arguments \in ArgumentsOf(name) :
          CallToolSuspend(name, arguments)
    \/ \E name \in ToolNames : \E arguments \in ArgumentsOf(name) :
          CallToolReturn(name, arguments)
    \/ \E uri \in Uris : ReadResourceSuspend(uri)
    \/ \E uri \in Uris : ReadResourceReturn(uri)
    \/ ListTools
    \/ ListResources
    \/ \E f \in BagToSet(inflight) : \E outcome \in Outcomes : Resume(f, outcome)
    \/ Deliver

Spec == Init /\ [][Next]_vars

(***************************************************************************)
(* Vocabulary of the properties.                                           *)
(***************************************************************************)
\* the tool names and resource uris the adapter declares
RegisteredTools == {handle_list_tools[i].name : i \in 1..Len(handle_list_tools)}
RegisteredUris == {handle_list_resources[i].uri : i \in 1..Len(handle_list_resources)}

\* ret answers a call_tool / a read_resource
ToolAnswer == ret.op = "call_tool"
ResourceAnswer == ret.op = "read_resource"

\* the HTTP call of the answered invocation ended in a response that is no
\* success, or in an exception of the client
BackendFailed ==
    \/ ret.outcome.kind = "exception"
    \/ ret.outcome.kind = "response" /\ ~(ret.outcome.status \in 200..299)

\* the HTTP call of the answered invocation ended in HTTP 200 with a JSON body
BackendOk200 ==
    ret.outcome.kind = "response" /\ ret.outcome.status = 200 /\ ret.outcome.json_ok

\* the keys of the data an envelope carries besides success and error
PayloadKeys(env) == DOMAIN env \ {"success", "error"}

(***************************************************************************)
(* C1: call_tool never raises.  Whatever the tool name, the arguments and  *)
(* the outcome of the HTTP call, no exception leaves handle_call_tool and  *)
(* it returns a text payload: a JSON object with a success or error field. *)
(***************************************************************************)
C1_CallToolNeverRaises ==
    ToolAnswer =>
        /\ ~ret.raised
        /\ ret.text # EmptyDict
        /\ DOMAIN ret.text \cap {"success", "error"} # {}

\* get_all_products answered after len() failed on a JSON null
C1_Witness ==
    /\ ToolAnswer
    /\ ret.name = "get_all_products"
    /\ ret.outcome = Response(200, NullBody)
    /\ ~ret.raised

(***************************************************************************)
(* C2: every envelope call_tool returns carries a boolean success field;   *)
(* with success true it carries a payload and no error, with success false *)
(* an error string and no payload.                                         *)
(***************************************************************************)
C2_EnvelopeDiscriminated ==
    ToolAnswer =>
        /\ "success" \in DOMAIN ret.text
        /\ ret.text["success"] \in BOOLEAN
        /\ IF ret.text["success"]
           THEN "error" \notin DOMAIN ret.text /\ PayloadKeys(ret.text) # {}
           ELSE "error" \in DOMAIN ret.text /\ PayloadKeys(ret.text) = {}

(***************************************************************************)
(* C3: for each registered tool, when the HTTP call ends in a response     *)
(* that is not 2xx or in a client exception, call_tool returns exactly     *)
(* {success: false, error: e} with e a non-empty string, and raises        *)
(* nothing.                                                                *)
(***************************************************************************)
C3_BackendFailureEnvelope ==
    (ToolAnswer /\ ret.name \in RegisteredTools /\ BackendFailed) =>
        /\ ~ret.raised
        /\ DOMAIN ret.text = {"success", "error"}
        /\ ret.text["success"] = FALSE
        /\ ret.text["error"] # ""

\* the keys of the success envelope of each tool, and the key of its payload
DocumentedShape(name) ==
    CASE name = "search_products" ->
            {"success", "products", "count", "search_term", "language"}
      [] name = "check_stock" -> {"success", "stock"}
      [] name = "get_all_products" -> {"success", "products", "count"}
      [] name = "create_order" -> {"success", "order"}
      [] name = "get_customer_history" -> {"success", "orders"}

PayloadKey(name) ==
    CASE name = "search_products" -> "products"
      [] name = "check_stock" -> "stock"
      [] name = "get_all_products" -> "products"
      [] name = "create_order" -> "order"
      [] name = "get_customer_history" -> "orders"

(***************************************************************************)
(* C4: for each registered tool, HTTP 200 with any JSON body gives an      *)
(* envelope with success true and the documented keys; the body is passed  *)
(* through unchanged, count is the number of products of a JSON array, and *)
(* search_term and language are the values used for the request.           *)
(***************************************************************************)
C4_SuccessShape ==
    (ToolAnswer /\ ret.name \in RegisteredTools /\ BackendOk200) =>
        /\ DOMAIN ret.text = DocumentedShape(ret.name)
        /\ ret.text["success"] = TRUE
        /\ ret.text[PayloadKey(ret.name)] = ret.outcome.body
        /\ ("count" \in DOMAIN ret.text /\ ret.outcome.body.tag = "list")
              => ret.text["count"] = Len(ret.outcome.body.items)
        /\ ret.name = "search_products" =>
              /\ ret.text["search_term"] = DictGet(ret.arguments, "search_term", PyNone)
              /\ ret.text["language"] = ret.sent[1].params["language"]

(***************************************************************************)
(* C5: unknown selectors are rejected before any network call.  call_tool  *)
(* with a name outside the registered tools returns an error payload with  *)
(* the unknown-tool message; read_resource with a uri outside the          *)
(* registered resources raises the unknown-resource error and returns no   *)
(* content; neither has issued an HTTP request.                            *)
(***************************************************************************)
C5_UnknownRejected ==
    /\ (ToolAnswer /\ ret.name \notin RegisteredTools) =>
          /\ ~ret.raised
          /\ "error" \in DOMAIN ret.text
          /\ ret.text["error"] = "Tool inconnu: " \o ret.name
          /\ PayloadKeys(ret.text) = {}
          /\ ret.sent = << >>
    /\ (ResourceAnswer /\ ret.name \notin RegisteredUris) =>
          /\ ret.raised
          /\ ret.error = "Ressource inconnue: " \o ret.name
          /\ ret.content = << >>
          /\ ret.sent = << >>

\* the unregistered tool has been answered while another invocation is
\* suspended on its HTTP call
C5_Witness ==
    /\ ToolAnswer
    /\ ret.name = "delete_all"
    /\ ret.sent = << >>
    /\ BagCardinality(inflight) > 0

\* the verb and path of each tool and of the catalog
TableVerb(name) == IF name = "create_order" THEN "POST" ELSE "GET"

TablePath(name, arguments) ==
    CASE name = "search_products" ->
            "/api/products/search/" \o Format(DictGet(arguments, "search_term", PyNone))
      [] name = "check_stock" ->
            "/api/stock/check/" \o Format(DictGet(arguments, "product_id", PyNone))
      [] name = "get_all_products" -> "/api/products"
      [] name = "eccbc://catalog" -> "/api/products"
      [] name = "create_order" -> "/api/orders"
      [] name = "get_customer_history" ->
            "/api/orders/" \o Format(DictGet(arguments, "customer_phone", PyNone))

(***************************************************************************)
(* C6: an answered call_tool of a registered tool, and an answered         *)
(* read_resource of eccbc://catalog, has issued exactly one HTTP request,  *)
(* whatever the outcome, with the verb and path of the dispatch table.     *)
(***************************************************************************)
C6_ExactlyOneRequest ==
    ((ToolAnswer /\ ret.name \in RegisteredTools)
        \/ (ResourceAnswer /\ ret.name = "eccbc://catalog")) =>
        /\ Len(ret.sent) = 1
        /\ ret.sent[1].method = TableVerb(ret.name)
        /\ ret.sent[1].url = API_BASE_URL \o TablePath(ret.name, ret.arguments)

\* create_order answered after its one POST ended in HTTP 500
C6_Witness ==
    /\ ToolAnswer
    /\ ret.name = "create_order"
    /\ ret.outcome = Response(500, NullBody)
    /\ Len(ret.sent) = 1
    /\ ret.sent[1].method = "POST"

\* the defaults the inputSchema of a tool declares
DeclaredDefaults(name) ==
    LET t == CHOOSE d \in {handle_list_tools[i] : i \in 1..Len(handle_list_tools)} :
                 d.name = name
    IN  t.defaults

\* the fields a request carries: its JSON body, or its query parameters
Carried(request) == IF request.has_json THEN request.json ELSE request.params

(***************************************************************************)
(* C7: for every registered tool and every field its input schema declares *)
(* a default for, the request carries the default when the arguments omit  *)
(* the field and the supplied value when they have it; create_order sends  *)
(* the argument object as the request body.                                *)
(***************************************************************************)
C7_DefaultsApplied ==
    (ToolAnswer /\ ret.name \in RegisteredTools) =>
        /\ \A k \in DOMAIN DeclaredDefaults(ret.name) :
              /\ k \in DOMAIN Carried(ret.sent[1])
              /\ Carried(ret.sent[1])[k] =
                     IF k \in DOMAIN ret.arguments
                     THEN ret.arguments[k]
                     ELSE DeclaredDefaults(ret.name)[k]
        /\ ret.name = "create_order" =>
              /\ ret.sent[1].has_json
              /\ \A k \in DOMAIN ret.arguments :
                    k \in DOMAIN ret.sent[1].json
                        /\ ret.sent[1].json[k] = ret.arguments[k]

\* every element the body yields is a JSON object
Renderable(body) ==
    /\ body.tag \in {"list", "dict"}
    /\ \A i \in 1..Len(body.items) : body.items[i].tag = "dict"

\* the number of lines of the block of a product: five, and one more when
\* it has a non-empty Arabic name
BlockLen(product) ==
    IF "name_ar" \in DOMAIN product.fields /\ product.fields["name_ar"].s # ""
    THEN 6 ELSE 5

RECURSIVE BlockStart(_, _)
\* the line of the text at which the block of the i-th product starts
BlockStart(items, i) ==
    IF i = 1 THEN 3 ELSE BlockStart(items, i - 1) + BlockLen(items[i - 1])

CatalogErrors ==
    {"Erreur: Impossible de recuperer le catalogue",
     "Erreur catalogue: 'str' object has no attribute 'get'"}

(***************************************************************************)
(* C8: read_resource of eccbc://catalog never raises.  When the backend    *)
(* fails or the body cannot be rendered as a list of products it returns   *)
(* one short error line; when every element of the body is a product it    *)
(* returns the header followed by one block per product, in the order of   *)
(* the body.                                                               *)
(***************************************************************************)
C8_CatalogNeverRaises ==
    (ResourceAnswer /\ ret.name = "eccbc://catalog") =>
        /\ ~ret.raised
        /\ IF ret.outcome.kind = "response" /\ ret.outcome.status \in 200..299
                /\ ret.outcome.json_ok /\ Renderable(ret.outcome.body)
           THEN LET items == ret.outcome.body.items
                IN  /\ ret.content[1] = "=== CATALOGUE ECCBC ==="
                    /\ ret.content[2] = ""
                    /\ Len(ret.content) = BlockStart(items, Len(items) + 1) - 1
                    /\ \A i \in 1..Len(items) :
                          ret.content[BlockStart(items, i)] =
                              "* " \o items[i].fields["name"].s \o " (Code: "
                                  \o (IF "code" \in DOMAIN items[i].fields
                                      THEN items[i].fields["code"].s ELSE "N/A")
                                  \o ")"
           ELSE Len(ret.content) = 1 /\ ret.content[1] \in CatalogErrors

\* the catalog of two different products has been rendered
C8_Witness ==
    /\ ResourceAnswer
    /\ ret.name = "eccbc://catalog"
    /\ ret.outcome = Response(200, ListBody(<<BareProduct, FullProduct>>))
    /\ Len(ret.content) = 13

\* r answers one of the four static operations
StaticAnswer(r) ==
    \/ r.op \in {"list_tools", "list_resources"}
    \/ r.op = "read_resource" /\ r.name \in {"eccbc://darija", "eccbc://context"}

\* what the static operations answer
C9_StaticResult ==
    /\ ret.op = "list_tools" =>
          [i \in 1..Len(ret.list) |-> ret.list[i].name] =
              << "search_products", "check_stock", "get_all_products",
                 "create_order", "get_customer_history" >>
    /\ ret.op = "list_resources" =>
          [i \in 1..Len(ret.list) |-> ret.list[i].uri] =
              << "eccbc://catalog", "eccbc://darija", "eccbc://context" >>
    /\ (ResourceAnswer /\ ret.name = "eccbc://darija") =>
          ~ret.raised /\ ret.content[1] = "=== GUIDE DARIJA ECCBC ==="
              /\ Len(ret.content) = 23
    /\ (ResourceAnswer /\ ret.name = "eccbc://context") =>
          ~ret.raised /\ ret.content[1] = "=== CONTEXTE ECCBC ==="
              /\ Len(ret.content) = 18
    /\ StaticAnswer(ret) => ret.sent = << >> /\ ret.outcome = NoOutcome

(***************************************************************************)
(* C9: the static operations are pure.  In every reachable state,          *)
(* list_tools answers the same five descriptors in the same order,         *)
(* list_resources the same three, read_resource of eccbc://darija and      *)
(* eccbc://context the same text; none has issued an HTTP request, and the *)
(* step that answers leaves the suspended invocations as they are.         *)
(***************************************************************************)
C9_StaticPure ==
    /\ []C9_StaticResult
    /\ [][(StaticAnswer(ret') /\ ret' # ret) => inflight' = inflight]_vars

\* list_tools has answered while as many invocations as the bound allows
\* are suspended on the backend
C9_Witness ==
    /\ ret.op = "list_tools"
    /\ Len(ret.list) = 5
    /\ BagCardinality(inflight) = MaxInFlight

====
